---- MODULE Spec2Model ----
(***************************************************************************)
(* State-machine model of photography_analysis:                            *)
(*   - the session segmenter  data.get_sessions_from_time_series           *)
(*   - the metadata store     data.get_metadata and its JSON cache         *)
(*   - the dataset assembler, process_time_based_plots and                 *)
(*     process_metadata_plots, with the plots they hand their groups to    *)
(*   - the whole process: main, parse_args and validate_args               *)
(* Instants are integers (whole seconds); the program uses floats, whose   *)
(* rounding is not modelled.                                               *)
(***************************************************************************)
EXTENDS Integers, Sequences, FiniteSets, TLC

VARIABLES
    \* ---- one call of get_sessions_from_time_series (a generator) ----
    timestamps_sec,   \* the argument timestamps_sec, as passed (any order)
    min_break,        \* the argument min_break_between_sessions_sec
    seg_pc,           \* "idle" | "created" | "loop" | "done" | "failed"
    sorted_ts,        \* the local timestamps_sec after sorted()
    session_start,    \* the local session_start
    seg_i,            \* index of prev_time in the zip() loop
    sessions,         \* the durations yielded so far
    seg_error,        \* the exception that ended the generator, or "none"
    \* ---- the file system and the metadata runs ----
    files,            \* files[folder][category]: what the glob matches, in order
    cache,            \* cache[folder][category]: NoFile or the JSON text of the file
    run,              \* the record of the last process_metadata_plots / get_metadata
    proc              \* the record of the last process, main() from start to end

seg_vars == <<timestamps_sec, min_break, seg_pc, sorted_ts, session_start,
              seg_i, sessions, seg_error>>
meta_vars == <<files, cache, run, proc>>
vars == <<timestamps_sec, min_break, seg_pc, sorted_ts, session_start,
          seg_i, sessions, seg_error, files, cache, run, proc>>

(***************************************************************************)
(* Bounds of the model.                                                    *)
(***************************************************************************)
MaxLen == 4          \* longest timestamp sequence given to the segmenter
MaxTime == 4         \* instants are drawn from 0..MaxTime
MaxBreak == 3        \* thresholds are drawn from 1..MaxBreak

\* The default threshold, 60 * 30 seconds.
DefaultMinBreak == 1800

\* The instants of the specification's concrete scenario.
ScenarioInstants == <<0, 100, 2200, 2300, 10000>>

(***************************************************************************)
(* Sequence helpers.                                                       *)
(***************************************************************************)
RECURSIVE SumSeq(_)
SumSeq(s) == IF s = <<>> THEN 0 ELSE Head(s) + SumSeq(Tail(s))

SetMin(S) == CHOOSE x \in S : \A y \in S : x <= y
SetMax(S) == CHOOSE x \in S : \A y \in S : x >= y

SeqsUpTo(S, n) == UNION {[1..k -> S] : k \in 0..n}

(***************************************************************************)
(* sorted(): insertion sort, ascending, keeping duplicates.                *)
(***************************************************************************)
RECURSIVE InsertSorted(_, _)
InsertSorted(x, s) ==
    IF s = <<>> THEN <<x>>
    ELSE IF x <= Head(s) THEN <<x>> \o s
    ELSE <<Head(s)>> \o InsertSorted(x, Tail(s))

\* sorted() left out: the sequence in the order given.
SortedKeepOrder(s) == s

RECURSIVE Sorted(_)
Sorted(s) == IF s = <<>> THEN <<>> ELSE InsertSorted(Head(s), Sorted(Tail(s)))

(***************************************************************************)
(* get_sessions_from_time_series                                           *)
(***************************************************************************)
\* assert len(timestamps_sec) > 1
HasEnoughDataNonEmpty(ts) == Len(ts) > 0
HasEnoughData(ts) == Len(ts) > 1

\* if cur_time - prev_time >= min_break_between_sessions_sec
IsSessionBreakStrict(prev_time, cur_time, threshold) ==
    cur_time - prev_time > threshold
IsSessionBreak(prev_time, cur_time, threshold) ==
    cur_time - prev_time >= threshold

\* if session_duration > 0  (a closed session is yielded only then)
YieldsClosedAlways(session_duration) == session_duration >= 0
YieldsClosed(session_duration) == session_duration > 0

\* session_start = cur_time, executed for every closed session
NextSessionStartKept(start, cur_time, session_duration) ==
    IF session_duration > 0 THEN cur_time ELSE start
NextSessionStart(start, cur_time, session_duration) == cur_time

\* The first next() on the generator: the assert, sorted(), session_start.
SegFirstNext ==
    /\ seg_pc = "created"
    /\ IF ~HasEnoughData(timestamps_sec)
       THEN /\ seg_pc' = "failed"
            /\ seg_error' = "AssertionError"
            /\ UNCHANGED <<sorted_ts, session_start, seg_i>>
       ELSE IF Len(timestamps_sec) = 0
       THEN \* timestamps_sec[0] on an empty list
            /\ seg_pc' = "failed"
            /\ seg_error' = "IndexError"
            /\ sorted_ts' = <<>>
            /\ UNCHANGED <<session_start, seg_i>>
       ELSE /\ sorted_ts' = Sorted(timestamps_sec)
            /\ session_start' = Sorted(timestamps_sec)[1]
            /\ seg_i' = 1
            /\ seg_pc' = "loop"
            /\ seg_error' = seg_error
    /\ UNCHANGED <<timestamps_sec, min_break, sessions>>
    /\ UNCHANGED meta_vars

\* One iteration of: for prev_time, cur_time in zip(ts, ts[1:])
SegLoopStep ==
    /\ seg_pc = "loop"
    /\ seg_i < Len(sorted_ts)
    /\ LET prev_time == sorted_ts[seg_i]
           cur_time == sorted_ts[seg_i + 1]
           session_duration == prev_time - session_start
       IN  IF IsSessionBreak(prev_time, cur_time, min_break)
           THEN /\ session_start' =
                       NextSessionStart(session_start, cur_time, session_duration)
                /\ sessions' = IF YieldsClosed(session_duration)
                               THEN Append(sessions, session_duration)
                               ELSE sessions
           ELSE UNCHANGED <<session_start, sessions>>
    /\ seg_i' = seg_i + 1
    /\ UNCHANGED <<timestamps_sec, min_break, seg_pc, sorted_ts, seg_error>>
    /\ UNCHANGED meta_vars

\* After the loop: yield timestamps_sec[-1] - session_start, then StopIteration.
SegFinal ==
    /\ seg_pc = "loop"
    /\ seg_i = Len(sorted_ts)
    /\ sessions' = Append(sessions, sorted_ts[Len(sorted_ts)] - session_start)
    /\ seg_pc' = "done"
    /\ UNCHANGED <<timestamps_sec, min_break, sorted_ts, session_start, seg_i,
                   seg_error>>
    /\ UNCHANGED meta_vars

(***************************************************************************)
(* Reference definitions for the segmenter claims, stated on the set of    *)
(* instants and independent of the loop above.                             *)
(***************************************************************************)
Instants == {timestamps_sec[i] : i \in DOMAIN timestamps_sec}

\* Pairs of instants that are neighbours in ascending order.
Neighbours ==
    {p \in Instants \X Instants :
        /\ p[1] < p[2]
        /\ ~ \E c \in Instants : p[1] < c /\ c < p[2]}

\* The neighbour pairs whose gap is at least the threshold.
Breaks == {p \in Neighbours : p[2] - p[1] >= min_break}

RECURSIVE SumGaps(_)
SumGaps(P) ==
    IF P = {} THEN 0
    ELSE LET p == CHOOSE q \in P : TRUE
         IN  (p[2] - p[1]) + SumGaps(P \ {p})

\* First instants of the maximal runs: the first instant and each instant
\* that follows a break.
RunStarts ==
    {v \in Instants : v = SetMin(Instants) \/ \E p \in Breaks : p[2] = v}

\* Last instant of the maximal run starting at s.
RunEnd(s) ==
    SetMax({v \in Instants :
               /\ v >= s
               /\ ~ \E p \in Breaks : s <= p[1] /\ p[2] <= v})

RECURSIVE RunDurations(_)
RunDurations(S) ==
    IF S = {} THEN <<>>
    ELSE LET s == SetMin(S)
             d == RunEnd(s) - s
         IN  (IF d > 0 \/ S = {s} THEN <<d>> ELSE <<>>) \o RunDurations(S \ {s})

ExpectedSessions == RunDurations(RunStarts)

\* The last two instants in ascending order coincide.
LastTwoCoincide ==
    Cardinality({i \in DOMAIN timestamps_sec :
                    timestamps_sec[i] = SetMax(Instants)}) >= 2

\* The last two instants in ascending order are distinct and at least the
\* threshold apart.
LastGapIsBreak ==
    \E p \in Breaks : p[2] = SetMax(Instants)

(***************************************************************************)
(* C1: when the generator is exhausted, the sum of the yielded session     *)
(* durations plus the sum of all gaps >= threshold between neighbouring    *)
(* sorted instants equals last instant minus first instant.                *)
(***************************************************************************)
C1_DurationsPlusBreaksIsSpan ==
    seg_pc = "done" =>
        SumSeq(sessions) + SumGaps(Breaks) = SetMax(Instants) - SetMin(Instants)

C1_Witness ==
    /\ seg_pc = "done"
    /\ timestamps_sec # Sorted(timestamps_sec)
    /\ Breaks # {}
    /\ Breaks # Neighbours
    /\ Len(sessions) >= 2

(***************************************************************************)
(* C2: in a loop iteration, a gap exactly equal to the threshold closes    *)
(* the session (the closed duration is yielded when positive and the next  *)
(* session starts at the later instant); a gap below the threshold leaves  *)
(* session_start and the yielded sessions alone.                           *)
(***************************************************************************)
C2_GapEqualClosesSmallerDoesNot ==
    [][ (seg_pc = "loop" /\ seg_i < Len(sorted_ts)) =>
        LET prev == sorted_ts[seg_i]
            cur == sorted_ts[seg_i + 1]
        IN  /\ (cur - prev = min_break) =>
                  /\ session_start' = cur
                  /\ sessions' = IF prev - session_start > 0
                                 THEN Append(sessions, prev - session_start)
                                 ELSE sessions
            /\ (cur - prev < min_break) =>
                  /\ session_start' = session_start
                  /\ sessions' = sessions ]_vars

C2_Witness ==
    /\ seg_pc = "loop"
    /\ seg_i > 1
    /\ sorted_ts[seg_i] - sorted_ts[seg_i - 1] = min_break
    /\ session_start = sorted_ts[seg_i]
    /\ sessions # <<>>

(***************************************************************************)
(* C3: the yielded sequence is, in order, last - first of each maximal run *)
(* of instants with gaps below the threshold, zero-duration runs left out  *)
(* unless final; the scenario [0, 100, 2200, 2300, 10000] with threshold   *)
(* 1800 yields [100, 100, 0].                                              *)
(***************************************************************************)
C3_SessionsAreMaximalRuns ==
    seg_pc = "done" =>
        /\ sessions = ExpectedSessions
        /\ (timestamps_sec = ScenarioInstants /\ min_break = 1800)
              => sessions = <<100, 100, 0>>

C3_Witness ==
    /\ seg_pc = "done"
    /\ timestamps_sec = ScenarioInstants
    /\ min_break = 1800
    /\ sessions = <<100, 100, 0>>

(***************************************************************************)
(* C4: with fewer than two timestamps the generator fails on its assertion *)
(* and yields nothing; with two identical timestamps it yields exactly one *)
(* session of duration 0.                                                  *)
(***************************************************************************)
C4_TooFewFailsTwoEqualYieldZero ==
    /\ (seg_pc \in {"loop", "done", "failed"} /\ Len(timestamps_sec) < 2) =>
          /\ seg_pc = "failed"
          /\ seg_error = "AssertionError"
          /\ sessions = <<>>
    /\ (seg_pc = "done" /\ Len(timestamps_sec) = 2
            /\ timestamps_sec[1] = timestamps_sec[2]) =>
          sessions = <<0>>

C4_Witness ==
    /\ seg_pc = "failed"
    /\ Len(timestamps_sec) = 1
    /\ sessions = <<>>

(***************************************************************************)
(* C5 as claimed: every duration is non-negative, and a zero duration is   *)
(* the final session of a series whose last two timestamps coincide.       *)
(***************************************************************************)
C5_ZeroOnlyWhenLastTwoCoincide ==
    seg_pc = "done" =>
        \A i \in DOMAIN sessions :
            /\ sessions[i] >= 0
            /\ sessions[i] = 0 => (i = Len(sessions) /\ LastTwoCoincide)

(***************************************************************************)
(* C5 amended: every duration is non-negative, and a zero duration is the  *)
(* final session of a series whose last two timestamps either coincide or  *)
(* are at least the threshold apart.                                       *)
(***************************************************************************)
C5_ZeroOnlyFinalSingleInstantRun ==
    seg_pc = "done" =>
        \A i \in DOMAIN sessions :
            /\ sessions[i] >= 0
            /\ sessions[i] = 0 =>
                  (i = Len(sessions) /\ (LastTwoCoincide \/ LastGapIsBreak))

C5_Witness ==
    /\ seg_pc = "done"
    /\ Len(sessions) >= 2
    /\ sessions[Len(sessions)] = 0
    /\ ~LastTwoCoincide

(***************************************************************************)
(* The file system.  A folder holds, per category, the files its glob      *)
(* pattern matches (raw_files_glob, edited_files_glob) and at most one     *)
(* cache file, <folder>/metadata_raw.json or <folder>/metadata_edited.json.*)
(***************************************************************************)
FolderNames == {"A", "B"}
Categories == {"raw", "edited"}
MaxFiles == 2        \* most files one glob matches when get_metadata is called directly
MaxFolders == 2      \* most folders on one command line

NoFile == <<"no file">>
NoPath == <<"None">>

\* A file matched by a glob; readable: the extractor can read metadata from it.
File(folder, cat, n, readable) ==
    [folder |-> folder, cat |-> cat, n |-> n, readable |-> readable]

\* folder / "metadata_raw.json", folder / "metadata_edited.json"
CachePath(folder, cat) == <<folder, cat>>

ReadCache(fs, path) == fs[path[1]][path[2]]
WriteCache(fs, path, text) ==
    [fs EXCEPT ![path[1]] = [fs[path[1]] EXCEPT ![path[2]] = text]]

(***************************************************************************)
(* Python values as exiftool and json produce them.  A dict is the         *)
(* sequence of its items in insertion order; a value is a number or a      *)
(* string (the characters of a string are kept as a sequence).             *)
(***************************************************************************)
PyNum(n) == [t |-> "num", n |-> n, s |-> <<>>]
PyStr(s) == [t |-> "str", n |-> 0, s |-> s]
Item(k, v) == [k |-> k, v |-> v]
EmptyRecord == <<>>

(***************************************************************************)
(* json.dump / json.load: the text of a cache file is its token sequence   *)
(* (white space, which indent=2 adds and the parser skips, is left out).   *)
(* Strings are written quoted ("str" tokens), numbers bare ("num").        *)
(***************************************************************************)
Tok(t, n, s) == [t |-> t, n |-> n, s |-> s]
Punct(c) == Tok(c, 0, <<>>)

JsonDumpValue(v) ==
    IF v.t = "num" THEN Tok("num", v.n, <<>>) ELSE Tok("str", 0, v.s)

RECURSIVE JsonDumpItems(_)
JsonDumpItems(rec) ==
    IF rec = <<>> THEN <<>>
    ELSE <<Tok("str", 0, <<Head(rec).k>>), Punct(":"), JsonDumpValue(Head(rec).v)>>
         \o (IF Tail(rec) = <<>> THEN <<>> ELSE <<Punct(",")>>)
         \o JsonDumpItems(Tail(rec))

JsonDumpRecord(rec) == <<Punct("{")>> \o JsonDumpItems(rec) \o <<Punct("}")>>

RECURSIVE JsonDumpRecords(_)
JsonDumpRecords(recs) ==
    IF recs = <<>> THEN <<>>
    ELSE JsonDumpRecord(Head(recs))
         \o (IF Tail(recs) = <<>> THEN <<>> ELSE <<Punct(",")>>)
         \o JsonDumpRecords(Tail(recs))

\* json.dump with every value written as a quoted string.
JsonDumpAllQuoted(recs) ==
    LET quoted == JsonDumpRecords(recs)
    IN  <<Punct("[")>>
        \o [i \in DOMAIN quoted |->
               IF quoted[i].t = "num"
               THEN Tok("str", 0, <<ToString(quoted[i].n)>>) ELSE quoted[i]]
        \o <<Punct("]")>>

\* json.dump(metadata, fp, indent=2)
JsonDump(recs) == <<Punct("[")>> \o JsonDumpRecords(recs) \o <<Punct("]")>>

JsonLoadValue(tok) ==
    IF tok.t = "num" THEN PyNum(tok.n) ELSE PyStr(tok.s)

\* Parses the items of an object from position i, up to its "}".
RECURSIVE JsonLoadItems(_, _, _)
JsonLoadItems(text, i, acc) ==
    IF text[i].t = "}" THEN [val |-> acc, next |-> i + 1]
    ELSE IF text[i].t = "," THEN JsonLoadItems(text, i + 1, acc)
    ELSE JsonLoadItems(text, i + 3,
             Append(acc, Item(text[i].s[1], JsonLoadValue(text[i + 2]))))

\* Parses the objects of the array from position i, up to its "]".
RECURSIVE JsonLoadRecords(_, _, _)
JsonLoadRecords(text, i, acc) ==
    IF text[i].t = "]" THEN acc
    ELSE IF text[i].t = "," THEN JsonLoadRecords(text, i + 1, acc)
    ELSE LET rec == JsonLoadItems(text, i + 1, <<>>)
         IN  JsonLoadRecords(text, rec.next, Append(acc, rec.val))

\* json.load(fp) of a cache file
JsonLoad(text) == JsonLoadRecords(text, 2, <<>>)

(***************************************************************************)
(* The external extractor, exiftool.ExifToolHelper.get_metadata: one       *)
(* record per file of the batch, or ExifToolOutputEmptyError when it has   *)
(* no output (no file in the batch it can read; an empty batch included).  *)
(***************************************************************************)
ExifToolOutputEmpty(items) == \A i \in DOMAIN items : ~items[i].readable

ExifToolRecord(file) ==
    IF file.readable
    THEN <<Item("SourceFile", PyStr(<<file.folder, file.cat, ToString(file.n)>>)),
           Item("EXIF:ISO", PyNum(100 * file.n)),
           Item("EXIF:DateTimeOriginal", PyStr(<<"2025:09:27 18:23:00">>))>>
    ELSE <<Item("SourceFile", PyStr(<<file.folder, file.cat, ToString(file.n)>>)),
           Item("ExifTool:Error", PyStr(<<"Unknown file type">>))>>

ExifToolGetMetadata(items) == [i \in DOMAIN items |-> ExifToolRecord(items[i])]

(***************************************************************************)
(* get_metadata(files, cache_file, write_cache), run against the cache     *)
(* files fs.  fls is the files argument: [kind, items], kind "list" or     *)
(* "generator".  The result tells how the call ended and what it did.      *)
(***************************************************************************)
Outcome(outcome, value, error, fs, invoked, printed, source) ==
    [outcome |-> outcome, value |-> value, error |-> error, fs |-> fs,
     invoked |-> invoked, printed |-> printed, source |-> source]

\* A store that never finds its cache file.
CacheHitNever(cache_file, fs) == FALSE

\* if cache_file and cache_file.exists()
CacheHit(cache_file, fs) ==
    cache_file # NoPath /\ ReadCache(fs, cache_file) # NoFile

\* if write_cache and cache_file
ShouldWriteCacheAnyFlag(write_cache, cache_file) == cache_file # NoPath
ShouldWriteCache(write_cache, cache_file) == write_cache /\ cache_file # NoPath

\* except ExifToolOutputEmptyError: print(f"... {files[0].parent}"); return [dict()]
EmptyBatchHandler(fls, fs) ==
    IF fls.kind # "list"
    THEN \* files[0] on a generator
         Outcome("raise", <<>>, "TypeError", fs, TRUE, <<>>, "empty")
    ELSE IF fls.items = <<>>
    THEN \* files[0] on an empty list
         Outcome("raise", <<>>, "IndexError", fs, TRUE, <<>>, "empty")
    ELSE Outcome("return", <<EmptyRecord>>, "none", fs, TRUE,
                 <<fls.items[1].folder>>, "empty")

\* A cache file read only when it has one record per file, else a fresh extraction.
CachedResultIfCountMatches(fls, cache_file, write_cache, fs) ==
    IF Len(JsonLoad(ReadCache(fs, cache_file))) = Len(fls.items)
    THEN Outcome("return", JsonLoad(ReadCache(fs, cache_file)), "none", fs,
                 FALSE, <<>>, "cache")
    ELSE Outcome("return", ExifToolGetMetadata(fls.items), "none", fs,
                 TRUE, <<>>, "fresh")

\* with open(cache_file, 'r') as fp: return json.load(fp)
CachedResult(fls, cache_file, write_cache, fs) ==
    Outcome("return", JsonLoad(ReadCache(fs, cache_file)), "none", fs,
            FALSE, <<>>, "cache")

\* metadata = et.get_metadata(files, ...); the cache write; return metadata
FreshResult(fls, cache_file, write_cache, fs) ==
    LET metadata == ExifToolGetMetadata(fls.items)
    IN  Outcome("return", metadata, "none",
                IF ShouldWriteCache(write_cache, cache_file)
                THEN WriteCache(fs, cache_file, JsonDump(metadata))
                ELSE fs,
                TRUE, <<>>, "fresh")

\* A store that writes the cache file after the empty-batch handler too.
GetMetadataCachingEmpty(fls, cache_file, write_cache, fs) ==
    IF CacheHit(cache_file, fs)
    THEN CachedResult(fls, cache_file, write_cache, fs)
    ELSE IF ExifToolOutputEmpty(fls.items)
    THEN IF /\ EmptyBatchHandler(fls, fs).outcome = "return"
            /\ ShouldWriteCache(write_cache, cache_file)
         THEN [EmptyBatchHandler(fls, fs) EXCEPT
                  !.fs = WriteCache(fs, cache_file, JsonDump(<<EmptyRecord>>))]
         ELSE EmptyBatchHandler(fls, fs)
    ELSE FreshResult(fls, cache_file, write_cache, fs)

\* A store that refreshes its cache file whenever write_cache is on.
GetMetadataRefreshing(fls, cache_file, write_cache, fs) ==
    IF CacheHit(cache_file, fs) /\ ~write_cache
    THEN CachedResult(fls, cache_file, write_cache, fs)
    ELSE IF ExifToolOutputEmpty(fls.items)
    THEN EmptyBatchHandler(fls, fs)
    ELSE FreshResult(fls, cache_file, write_cache, fs)

GetMetadata(fls, cache_file, write_cache, fs) ==
    IF CacheHit(cache_file, fs)
    THEN CachedResult(fls, cache_file, write_cache, fs)
    ELSE IF ExifToolOutputEmpty(fls.items)
    THEN EmptyBatchHandler(fls, fs)
    ELSE FreshResult(fls, cache_file, write_cache, fs)

\* One get_metadata call as the log keeps it: the arguments, the result, and
\* the cache file of the batch (folder, cat) before and after the call.
CallEntry(folder, cat, fls, cache_file, write_cache, fs) ==
    LET res == GetMetadata(fls, cache_file, write_cache, fs)
    IN  [fs |-> res.fs, folder |-> folder, cat |-> cat, kind |-> fls.kind, items |-> fls.items,
         cache_given |-> cache_file # NoPath, write_cache |-> write_cache,
         before |-> fs[folder][cat], after |-> res.fs[folder][cat],
         fs_changed |-> res.fs # fs,
         outcome |-> res.outcome, value |-> res.value, error |-> res.error,
         invoked |-> res.invoked, printed |-> res.printed, source |-> res.source]

(***************************************************************************)
(* The run record.                                                         *)
(***************************************************************************)
NoArgs == [folders |-> <<>>, compare_folders |-> "none",
           cache_metadata |-> FALSE, any_metadata_plot |-> FALSE]

RunRecord(status, args, calls, collections, error) ==
    [status |-> status, args |-> args, calls |-> calls,
     metadata_collections |-> collections, error |-> error]

Idle == RunRecord("idle", NoArgs, <<>>, <<>>, "none")

(***************************************************************************)
(* The process record: what one main() did, from parse_args to its end.    *)
(***************************************************************************)
\* None, the value argparse leaves for an option that was not given.
PyNone == <<"None">>

NoMainArgs ==
    [folders |-> <<>>, compare_folders |-> "none",
     folder_comparison_labels |-> PyNone,
     cache_metadata |-> FALSE, use_nan_if_metadata_missing |-> FALSE,
     delta_plot |-> FALSE, sessions_plot |-> FALSE,
     hour_of_day_plot |-> FALSE, isos_plot |-> FALSE,
     custom_metadata_plot |-> PyNone, custom_metadata_plot_tag |-> PyNone,
     custom_metadata_plot_axis_label |-> PyNone]

\* status: "idle" | "invalid" | "raised" | "done"; io: the kinds of file and
\* process I/O done; files_collections, mtimes_collections: the groups of
\* process_time_based_plots; metadata_labels: the labels of the metadata
\* groups (the groups are run.metadata_collections); plots: the figures
\* saved, in order; cache_before: the cache files when the process began.
ProcRecord(status, args, error, io, files_collections, mtimes_collections, metadata_labels, plots, cache_before) ==
    [status |-> status, args |-> args, error |-> error, io |-> io,
     files_collections |-> files_collections,
     mtimes_collections |-> mtimes_collections,
     metadata_labels |-> metadata_labels, plots |-> plots,
     cache_before |-> cache_before]

IdleProc == ProcRecord("idle", NoMainArgs, "none", {}, <<>>, <<>>, <<>>, <<>>, <<>>)

MetaQuiet ==
    /\ files = [f \in FolderNames |-> [c \in Categories |-> <<>>]]
    /\ cache = [f \in FolderNames |-> [c \in Categories |-> NoFile]]
    /\ run = Idle
    /\ proc = IdleProc

SegQuiet ==
    /\ timestamps_sec = <<>>
    /\ min_break = DefaultMinBreak
    /\ seg_pc = "idle"
    /\ sorted_ts = <<>>
    /\ session_start = 0
    /\ seg_i = 0
    /\ sessions = <<>>
    /\ seg_error = "none"

(***************************************************************************)
(* process_metadata_plots(args), up to metadata_collections.               *)
(***************************************************************************)
\* The (folder, category) batches in the order get_metadata is called on them.
Batches(args) ==
    IF args.compare_folders # "none"
    THEN [i \in DOMAIN args.folders |-> <<args.folders[i], args.compare_folders>>]
    ELSE [j \in 1..(2 * Len(args.folders)) |->
             <<args.folders[(j + 1) \div 2], IF j % 2 = 1 THEN "raw" ELSE "edited">>]

\* The cache file named metadata_raw.json whatever the category.
CacheFileArgRawOnly(folder, cat, args) == CachePath(folder, "raw")

\* A cache file given in the compare modes only.
CacheFileArgCompareOnly(folder, cat, args) ==
    IF args.compare_folders # "none" THEN CachePath(folder, cat) ELSE NoPath

\* cache_file=folder / cache_filename, given only when --cache-metadata is on.
CacheFileArgWhenCaching(folder, cat, args) ==
    IF args.cache_metadata THEN CachePath(folder, cat) ELSE NoPath

\* cache_file=folder / "metadata_raw.json" (or "metadata_edited.json")
CacheFileArg(folder, cat, args) == CachePath(folder, cat)

\* The get_metadata calls of the loops over args.folders, in order, each on
\* the cache files the one before left; an exception ends the loop.
RECURSIVE RunCalls(_, _, _, _)
RunCalls(batches, args, fs, log) ==
    IF batches = <<>> THEN [fs |-> fs, log |-> log]
    ELSE LET folder == Head(batches)[1]
             cat == Head(batches)[2]
             entry == CallEntry(folder, cat,
                          [kind |-> "generator", items |-> files[folder][cat]],
                          CacheFileArg(folder, cat, args), args.cache_metadata, fs)
         IN  IF entry.outcome = "raise"
             THEN [fs |-> entry.fs, log |-> Append(log, entry)]
             ELSE RunCalls(Tail(batches), args, entry.fs, Append(log, entry))

\* metadata_raw.extend(...) / metadata_edited.extend(...) over the folders
RECURSIVE Extended(_, _)
Extended(log, cat) ==
    IF log = <<>> THEN <<>>
    ELSE (IF Head(log).cat = cat THEN Head(log).value ELSE <<>>)
         \o Extended(Tail(log), cat)

MetadataCollections(args, log) ==
    IF args.compare_folders # "none"
    THEN [i \in DOMAIN log |-> log[i].value]
    ELSE <<Extended(log, "raw"), Extended(log, "edited")>>

Raised(log) == log # <<>> /\ log[Len(log)].outcome = "raise"

ProcessMetadataPlots(args) ==
    /\ run.status = "idle"
    /\ IF ~args.any_metadata_plot
       THEN \* no metadata plot was asked for: return
            /\ run' = RunRecord("skipped", args, <<>>, <<>>, "none")
            /\ cache' = cache
       ELSE LET done == RunCalls(Batches(args), args, cache, <<>>)
            IN  /\ cache' = done.fs
                /\ run' = IF Raised(done.log)
                          THEN RunRecord("raised", args, done.log, <<>>,
                                         done.log[Len(done.log)].error)
                          ELSE RunRecord("collected", args, done.log,
                                         MetadataCollections(args, done.log),
                                         "none")
    /\ UNCHANGED files
    /\ UNCHANGED seg_vars
    /\ UNCHANGED proc

\* The process ends.
Exit ==
    /\ run.status \in {"skipped", "raised", "collected"}
    /\ run' = Idle
    /\ UNCHANGED <<files, cache>>
    /\ UNCHANGED seg_vars
    /\ UNCHANGED proc

(***************************************************************************)
(* The user, between runs: files appear or disappear in a folder, a cache  *)
(* file is deleted.                                                        *)
(***************************************************************************)
RunFileLists(folder, cat) == {<<>>, <<File(folder, cat, 1, TRUE)>>}

EnvChangeFiles(folder, cat) ==
    /\ run.status = "idle"
    /\ \E l \in RunFileLists(folder, cat) \ {files[folder][cat]} :
          files' = [files EXCEPT ![folder] = [files[folder] EXCEPT ![cat] = l]]
    /\ UNCHANGED <<cache, run>>
    /\ UNCHANGED seg_vars
    /\ UNCHANGED proc

EnvDeleteCache(folder, cat) ==
    /\ run.status = "idle"
    /\ cache[folder][cat] # NoFile
    /\ cache' = WriteCache(cache, CachePath(folder, cat), NoFile)
    /\ UNCHANGED <<files, run>>
    /\ UNCHANGED seg_vars
    /\ UNCHANGED proc

ArgsSet ==
    [folders : SeqsUpTo(FolderNames, MaxFolders) \ {<<>>},
     compare_folders : {"none", "raw", "edited"},
     cache_metadata : BOOLEAN,
     any_metadata_plot : BOOLEAN]

(***************************************************************************)
(* Spec: runs of the program over the folders, with the user changing the  *)
(* folders between runs.                                                   *)
(***************************************************************************)
Init ==
    /\ SegQuiet
    /\ files \in {fl \in [FolderNames -> [Categories ->
                            UNION {RunFileLists(f, c) :
                                   f \in FolderNames, c \in Categories}]] :
                   \A f \in FolderNames : \A c \in Categories :
                      fl[f][c] \in RunFileLists(f, c)}
    /\ cache = [f \in FolderNames |-> [c \in Categories |-> NoFile]]
    /\ run = Idle
    /\ proc = IdleProc

Next ==
    \/ \E args \in ArgsSet : ProcessMetadataPlots(args)
    \/ Exit
    \/ \E f \in FolderNames, c \in Categories : EnvChangeFiles(f, c)
    \/ \E f \in FolderNames, c \in Categories : EnvDeleteCache(f, c)

Spec == Init /\ [][Next]_vars

(***************************************************************************)
(* SpecStore: get_metadata called directly, any number of times, on the    *)
(* files of one folder and category, as a list or as a generator, with or  *)
(* without a cache location and with either value of write_cache.          *)
(***************************************************************************)
StoreFolder == "A"
StoreCat == "raw"

NthSmallest(S, i) == CHOOSE x \in S : Cardinality({y \in S : y < x}) = i - 1

\* What a glob can match: distinct files, each readable or not.
StoreFileLists ==
    {[i \in 1..Cardinality(S) |->
         File(StoreFolder, StoreCat, NthSmallest(S, i), r[NthSmallest(S, i)])] :
     S \in SUBSET (1..MaxFiles), r \in [1..MaxFiles -> BOOLEAN]}

\* run.calls keeps the call that wrote the cache file now on disk, if a call
\* did, and after it the latest call made since the files last changed.
Writer(calls) ==
    IF calls # <<>> /\ Head(calls).fs_changed THEN <<Head(calls)>> ELSE <<>>

Logged(calls, entry) ==
    IF entry.fs_changed THEN <<entry>> ELSE Writer(calls) \o <<entry>>

CallGetMetadata ==
    \E kind \in {"list", "generator"}, given \in BOOLEAN, write_cache \in BOOLEAN :
        LET entry == CallEntry(StoreFolder, StoreCat,
                         [kind |-> kind, items |-> files[StoreFolder][StoreCat]],
                         IF given THEN CachePath(StoreFolder, StoreCat) ELSE NoPath,
                         write_cache, cache)
        IN  /\ cache' = entry.fs
            /\ run' = RunRecord("called", NoArgs, Logged(run.calls, entry),
                                <<>>, entry.error)
            /\ UNCHANGED files
            /\ UNCHANGED seg_vars
            /\ UNCHANGED proc
    /\ UNCHANGED proc

StoreChangeFiles ==
    /\ \E l \in StoreFileLists \ {files[StoreFolder][StoreCat]} :
          files' = [files EXCEPT
                       ![StoreFolder] = [files[StoreFolder] EXCEPT ![StoreCat] = l]]
    /\ run' = IF Writer(run.calls) = <<>> THEN Idle
              ELSE RunRecord("called", NoArgs, Writer(run.calls), <<>>, "none")
    /\ cache' = cache
    /\ UNCHANGED seg_vars
    /\ UNCHANGED proc

StoreDeleteCache ==
    /\ cache[StoreFolder][StoreCat] # NoFile
    /\ cache' = WriteCache(cache, CachePath(StoreFolder, StoreCat), NoFile)
    /\ run' = Idle
    /\ UNCHANGED files
    /\ UNCHANGED seg_vars
    /\ UNCHANGED proc

InitStore ==
    /\ SegQuiet
    /\ \E l \in StoreFileLists :
          files = [f \in FolderNames |-> [c \in Categories |->
                      IF f = StoreFolder /\ c = StoreCat THEN l ELSE <<>>]]
    /\ cache = [f \in FolderNames |-> [c \in Categories |-> NoFile]]
    /\ run = Idle
    /\ proc = IdleProc

NextStore == CallGetMetadata \/ StoreChangeFiles \/ StoreDeleteCache

SpecStore == InitStore /\ [][NextStore]_vars

(***************************************************************************)
(* C6: a get_metadata call given a cache file that exists returns what     *)
(* json.load reads from it, whatever the number of files, without calling  *)
(* the extractor and without touching a cache file.                        *)
(***************************************************************************)
C6_ExistingCacheReturnedVerbatim ==
    \A i \in DOMAIN run.calls :
        LET c == run.calls[i]
        IN  (c.cache_given /\ c.before # NoFile) =>
                /\ c.outcome = "return"
                /\ c.value = JsonLoad(c.before)
                /\ ~c.invoked
                /\ ~c.fs_changed

C6_Witness ==
    \E i \in DOMAIN run.calls :
        LET c == run.calls[i]
        IN  /\ c.cache_given
            /\ c.before # NoFile
            /\ c.outcome = "return"
            /\ Len(c.value) # Len(c.items)
            /\ ~c.invoked

(***************************************************************************)
(* C7: once a call has extracted records and written them to the cache     *)
(* file, a later call with that cache file (the file not deleted in        *)
(* between) returns the very list the first call returned and does not     *)
(* call the extractor.                                                     *)
(***************************************************************************)
C7_CacheRoundTrip ==
    (Len(run.calls) = 2 /\ run.calls[1].fs_changed /\ run.calls[2].cache_given) =>
        /\ run.calls[1].source = "fresh"
        /\ run.calls[2].outcome = "return"
        /\ run.calls[2].value = run.calls[1].value
        /\ ~run.calls[2].invoked

C7_Witness ==
    /\ Len(run.calls) = 2
    /\ run.calls[1].fs_changed
    /\ run.calls[2].cache_given
    /\ run.calls[2].items # run.calls[1].items
    /\ Len(run.calls[1].value) = 2
    /\ run.calls[2].value = run.calls[1].value

(***************************************************************************)
(* C8: in every run, a get_metadata call for a folder and category whose   *)
(* cache file existed when the run began returns what that file holds,     *)
(* does not call the extractor and leaves the file as it was - whatever    *)
(* files the folder now has and whether or not --cache-metadata is on.     *)
(* Hence a run extracts for a batch only if its cache file is absent.      *)
(***************************************************************************)
C8_ExistingCacheAlwaysTrusted ==
    [][ (run.status = "idle" /\ run'.status \in {"collected", "raised"}) =>
        \A i \in DOMAIN run'.calls :
            LET c == run'.calls[i]
            IN  cache[c.folder][c.cat] # NoFile =>
                    /\ c.outcome = "return"
                    /\ c.value = JsonLoad(cache[c.folder][c.cat])
                    /\ ~c.invoked
                    /\ cache'[c.folder][c.cat] = cache[c.folder][c.cat] ]_vars

C8_Witness ==
    /\ run.status = "collected"
    /\ ~run.args.cache_metadata
    /\ \E i \in DOMAIN run.calls :
          LET c == run.calls[i]
          IN  /\ c.before # NoFile
              /\ files[c.folder][c.cat] = <<>>
              /\ c.value = JsonLoad(c.before)
              /\ Len(c.value) = 1
              /\ ~c.invoked

(***************************************************************************)
(* C9: after a get_metadata call that extracted records, the cache file    *)
(* holds exactly the returned list if a cache location was given and       *)
(* write_cache is on; otherwise no cache file was written, and the given   *)
(* location, if any, still has no file.                                    *)
(***************************************************************************)
C9_CacheWrittenIffGivenAndEnabled ==
    \A i \in DOMAIN run.calls :
        LET c == run.calls[i]
        IN  c.source = "fresh" =>
                IF c.cache_given /\ c.write_cache
                THEN c.after # NoFile /\ JsonLoad(c.after) = c.value
                ELSE ~c.fs_changed /\ (c.cache_given => c.after = NoFile)

C9_Witness ==
    \E i \in DOMAIN run.calls :
        LET c == run.calls[i]
        IN  /\ c.source = "fresh"
            /\ c.cache_given
            /\ c.write_cache
            /\ c.before = NoFile
            /\ c.after # NoFile
            /\ JsonLoad(c.after) = c.value
            /\ Len(c.value) = 2

(***************************************************************************)
(* C10 as claimed: whenever the extractor reports the empty-result         *)
(* condition for a batch of a run, get_metadata returns a list holding one *)
(* empty record, prints a diagnostic naming the batch's folder, and the    *)
(* run goes on to collect its metadata.                                    *)
(***************************************************************************)
C10_EmptyBatchRecoveredInRuns ==
    \A i \in DOMAIN run.calls :
        LET c == run.calls[i]
        IN  c.source = "empty" =>
                /\ c.outcome = "return"
                /\ c.value = <<EmptyRecord>>
                /\ c.printed = <<c.folder>>
                /\ run.status = "collected"

(***************************************************************************)
(* parse_args and validate_args.  args holds the options the model keeps:  *)
(* folders, compare_folders ("none" when not given), the lists of the      *)
(* nargs='*' options (PyNone when the option is not given, <<>> when it is *)
(* given without a value), the flags, and for each plot whether its output *)
(* file was given.  Of the tag plots that differ only in their tag and     *)
(* axis (focal lengths, exposure times, apertures, ISOs, light values,     *)
(* crop factors) the model keeps the ISO plot.                             *)
(***************************************************************************)
\* Python truth of an optional list: neither None nor empty.
Truthy(list) == list # PyNone /\ list # <<>>

\* folder.exists(): the folders of the file system are FolderNames.
FolderExists(folder) == folder \in DOMAIN files

\* The label check with != weakened to >: more labels than folders pass.
LabelCountCheckTooFewOnly(args) ==
    IF args.compare_folders = "none" THEN "none"
    ELSE IF args.folder_comparison_labels = PyNone THEN "TypeError"
    ELSE IF Len(args.folders) > Len(args.folder_comparison_labels)
    THEN "ValueError: labels"
    ELSE "none"

\* if args.compare_folders and len(args.folders) != len(args.folder_comparison_labels)
LabelCountCheck(args) ==
    IF args.compare_folders = "none" THEN "none"
    ELSE IF args.folder_comparison_labels = PyNone
    THEN \* len(None)
         "TypeError"
    ELSE IF Len(args.folders) # Len(args.folder_comparison_labels)
    THEN "ValueError: labels"
    ELSE "none"

\* The two checks of the custom-plot options.
CustomPlotCheck(args) ==
    LET plot == args.custom_metadata_plot
        tag == args.custom_metadata_plot_tag
        axis_label == args.custom_metadata_plot_axis_label
    IN  IF ~(Truthy(plot) \/ Truthy(tag) \/ Truthy(axis_label)) THEN "none"
        ELSE IF ~(Truthy(plot) /\ Truthy(tag) /\ Truthy(axis_label))
        THEN "ValueError: custom options in conjunction"
        ELSE IF ~(Len(plot) = Len(tag) /\ Len(tag) = Len(axis_label))
        THEN "ValueError: custom options same number"
        ELSE "none"

\* for folder in args.folders: if not folder.exists(): raise ValueError
FoldersCheck(args) ==
    IF \E i \in DOMAIN args.folders : ~FolderExists(args.folders[i])
    THEN "ValueError: folder"
    ELSE "none"

\* validate_args: the first check that fails raises; io: the I/O done.
ValidateArgs(args) ==
    IF LabelCountCheck(args) # "none"
    THEN [error |-> LabelCountCheck(args), io |-> {}]
    ELSE IF CustomPlotCheck(args) # "none"
    THEN [error |-> CustomPlotCheck(args), io |-> {}]
    ELSE [error |-> FoldersCheck(args), io |-> {"exists"}]

(***************************************************************************)
(* process_time_based_plots                                                *)
(***************************************************************************)
\* folder.glob(glob_pattern, case_sensitive=False)
Glob(folder, cat) == IF FolderExists(folder) THEN files[folder][cat] ELSE <<>>

\* os.stat(file).st_mtime, in seconds: the files of folder "B" are older
\* than those of folder "A", raw files older than edited ones.
Mtime(file) ==
    600 * file.n + (IF file.folder = "A" THEN 300 ELSE 0)
                 + (IF file.cat = "raw" THEN 0 ELSE 2400)

\* collect_file_stats(files)
CollectFileStats(fls) == [i \in DOMAIN fls |-> Mtime(fls[i])]

\* [file for folder in args.folders for file in folder.glob(glob_pattern)]
RECURSIVE GlobOverFolders(_, _)
GlobOverFolders(folders, cat) ==
    IF folders = <<>> THEN <<>>
    ELSE Glob(Head(folders), cat) \o GlobOverFolders(Tail(folders), cat)

\* The aggregate groups with the glob patterns taken in the other order.
FilesCollectionsEditedFirst(args) ==
    IF args.compare_folders # "none"
    THEN [i \in DOMAIN args.folders |-> Glob(args.folders[i], args.compare_folders)]
    ELSE <<GlobOverFolders(args.folders, "edited"),
           GlobOverFolders(args.folders, "raw")>>

\* files_collections, per folder or per glob pattern
FilesCollections(args) ==
    IF args.compare_folders # "none"
    THEN [i \in DOMAIN args.folders |-> Glob(args.folders[i], args.compare_folders)]
    ELSE <<GlobOverFolders(args.folders, "raw"),
           GlobOverFolders(args.folders, "edited")>>

\* mtimes_collections
MtimesCollections(files_collections) ==
    [i \in DOMAIN files_collections |->
        Sorted(CollectFileStats(files_collections[i]))]

\* zip(labels, lists) as the plots build their columns from it
Zip(labels, lists) ==
    [i \in 1..(IF Len(labels) < Len(lists) THEN Len(labels) ELSE Len(lists)) |->
        [label |-> labels[i], values |-> lists[i]]]

Plot(plot, tag, columns) == [plot |-> plot, tag |-> tag, columns |-> columns]

\* pd.Series(mtimes).diff(), without the leading NaN
Diff(mtimes) == [i \in 1..(Len(mtimes) - 1) |-> mtimes[i + 1] - mtimes[i]]

\* min_break_between_sessions_sec=60 * 30
SessionsPlotMinBreak == 1800

\* get_sessions_from_time_series consumed to its end (pd.Series(sessions)):
\* the loop of the generator, from index i with the session begun at start.
RECURSIVE SessionsLoop(_, _, _, _, _)
SessionsLoop(ts, i, start, threshold, acc) ==
    IF i >= Len(ts) THEN Append(acc, ts[Len(ts)] - start)
    ELSE IF IsSessionBreak(ts[i], ts[i + 1], threshold)
    THEN SessionsLoop(ts, i + 1,
             NextSessionStart(start, ts[i + 1], ts[i] - start), threshold,
             IF YieldsClosed(ts[i] - start) THEN Append(acc, ts[i] - start) ELSE acc)
    ELSE SessionsLoop(ts, i + 1, start, threshold, acc)

SessionsOfSorted(ts, threshold) == SessionsLoop(ts, 1, ts[1], threshold, <<>>)

GetSessions(ts, threshold) ==
    IF ~HasEnoughData(ts) THEN [error |-> "AssertionError", sessions |-> <<>>]
    ELSE [error |-> "none", sessions |-> SessionsOfSorted(Sorted(ts), threshold)]

TimeLabels(args, aggregate_labels) ==
    IF args.compare_folders # "none" THEN args.folder_comparison_labels
    ELSE aggregate_labels

\* The result of process_time_based_plots: how it ended, its groups, the
\* figures it saved and the I/O it did.
TimeResult(status, error, io, files_collections, mtimes_collections, plots) ==
    [status |-> status, error |-> error, io |-> io,
     files_collections |-> files_collections,
     mtimes_collections |-> mtimes_collections, plots |-> plots]

\* if args.delta_plot: plots.plot_time_between_photos(...)
DeltaPlot(args, mtimes_collections) ==
    IF args.delta_plot
    THEN <<Plot("delta", "mtime",
                Zip(TimeLabels(args, <<"Photos shot", "Photos edited">>),
                    [i \in DOMAIN mtimes_collections |-> Diff(mtimes_collections[i])]))>>
    ELSE <<>>

\* if args.sessions_plot: plots.plot_sessions(...), which consumes the generators
SessionsPlot(args, sessions_collections) ==
    IF ~args.sessions_plot THEN [error |-> "none", plots |-> <<>>]
    ELSE IF \E i \in DOMAIN sessions_collections :
               sessions_collections[i].error # "none"
    THEN [error |-> "AssertionError", plots |-> <<>>]
    ELSE [error |-> "none",
          plots |-> <<Plot("sessions", "mtime",
                           Zip(TimeLabels(args, <<"Photo shoot sessions",
                                                  "Editing sessions">>),
                               [i \in DOMAIN sessions_collections |->
                                   sessions_collections[i].sessions]))>>]

\* The I/O of the glob, of os.stat and of the figures saved.
TimeIo(files_collections, plots) ==
    {"glob"}
    \cup (IF \E i \in DOMAIN files_collections : files_collections[i] # <<>>
          THEN {"stat"} ELSE {})
    \cup (IF plots # <<>> THEN {"savefig"} ELSE {})

TimePlots(args, files_collections, mtimes_collections, delta, sessions_plot) ==
    TimeResult(IF sessions_plot.error = "none" THEN "done" ELSE "raised",
               sessions_plot.error,
               TimeIo(files_collections, delta \o sessions_plot.plots),
               files_collections, mtimes_collections, delta \o sessions_plot.plots)

TimeGroups(args, files_collections, mtimes_collections) ==
    TimePlots(args, files_collections, mtimes_collections,
              DeltaPlot(args, mtimes_collections),
              SessionsPlot(args, [i \in DOMAIN mtimes_collections |->
                                    GetSessions(mtimes_collections[i],
                                                SessionsPlotMinBreak)]))

ProcessTimeBasedPlots(args) ==
    IF ~args.delta_plot /\ ~args.sessions_plot
    THEN TimeResult("skipped", "none", {}, <<>>, <<>>, <<>>)
    ELSE TimeGroups(args, FilesCollections(args),
                    MtimesCollections(FilesCollections(args)))

(***************************************************************************)
(* The metadata plots.  try_get_tag is imported from photography_analysis  *)
(* .data, which does not define it; it is modelled from the description    *)
(* of the tag lookup helper.                                               *)
(***************************************************************************)
PyNaN == [t |-> "nan", n |-> 0, s |-> <<>>]

HasTag(record, tag) == \E i \in DOMAIN record : record[i].k = tag

TagValue(record, tag) ==
    record[CHOOSE i \in DOMAIN record : record[i].k = tag].v

\* try_get_tag without a use_nan argument: strict.
UseNanDefault == FALSE

\* try_get_tag(record, tag, use_nan)
TryGetTag(record, tag, use_nan) ==
    IF HasTag(record, tag)
    THEN [error |-> "none", value |-> TagValue(record, tag)]
    ELSE IF use_nan
    THEN [error |-> "none", value |-> PyNaN]
    ELSE [error |-> "MissingTagError", value |-> PyNaN]

\* float(value): a number or NaN; the strings of the model's records are not numerals.
Float(value) ==
    IF value.t = "str" THEN [error |-> "ValueError", value |-> PyNaN]
    ELSE [error |-> "none", value |-> value]

\* value.replace(":", "-", count=2), then datetime.fromisoformat: needs a string.
CaptureTime(value) ==
    IF value.t # "str" THEN [error |-> "AttributeError", value |-> PyNaN]
    ELSE [error |-> "none", value |-> value]

\* The looked-up values of every list, in the order of the lists and of
\* their records, with the error of the first lookup that raises.
FirstError(results) ==
    IF \E i \in DOMAIN results : \E j \in DOMAIN results[i] :
           results[i][j].error # "none"
    THEN LET i == SetMin({k \in DOMAIN results :
                            \E j \in DOMAIN results[k] : results[k][j].error # "none"})
             j == SetMin({k \in DOMAIN results[i] : results[i][k].error # "none"})
         IN  results[i][j].error
    ELSE "none"

Values(results) ==
    [i \in DOMAIN results |-> [j \in DOMAIN results[i] |-> results[i][j].value]]

PlotResult(error, plots) == [error |-> error, plots |-> plots]

\* assert len(metadata_lists) == len(metadata_labels)
LabelsMatchLists(metadata_lists, metadata_labels) ==
    IF metadata_labels = PyNone THEN "TypeError"
    ELSE IF Len(metadata_lists) # Len(metadata_labels) THEN "AssertionError"
    ELSE "none"

\* What a lookup that did not raise is converted by.
Converted(found, conversion) ==
    IF found.error # "none" THEN found
    ELSE IF conversion = "float" THEN Float(found.value)
    ELSE CaptureTime(found.value)

\* plot_metadata with the lookup always strict.
TagLookupStrict(record, tag, nan_if_tag_missing) ==
    Converted(TryGetTag(record, tag, FALSE), "float")

\* float(try_get_tag(it, tag, use_nan=nan_if_tag_missing))
TagLookup(record, tag, nan_if_tag_missing) ==
    Converted(TryGetTag(record, tag, nan_if_tag_missing), "float")

\* The figure of a plot from its lookups, or the error of the first that raised.
PlotColumns(plot, tag, metadata_labels, results) ==
    IF FirstError(results) # "none" THEN PlotResult(FirstError(results), <<>>)
    ELSE PlotResult("none", <<Plot(plot, tag, Zip(metadata_labels, Values(results)))>>)

\* plot_metadata(metadata_lists, metadata_labels, tag, ..., nan_if_tag_missing);
\* the columns hold the values in record order (sorted() is not modelled).
PlotMetadata(plot, metadata_lists, metadata_labels, tag, nan_if_tag_missing) ==
    IF LabelsMatchLists(metadata_lists, metadata_labels) # "none"
    THEN PlotResult(LabelsMatchLists(metadata_lists, metadata_labels), <<>>)
    ELSE PlotColumns(plot, tag, metadata_labels,
             [i \in DOMAIN metadata_lists |->
                 [j \in DOMAIN metadata_lists[i] |->
                     TagLookup(metadata_lists[i][j], tag, nan_if_tag_missing)]])

\* try_get_tag(it, "EXIF:DateTimeOriginal").replace(":", "-", count=2)
CaptureTimeLookup(record) ==
    Converted(TryGetTag(record, "EXIF:DateTimeOriginal", UseNanDefault), "datetime")

\* plot_photo_capture_hours_of_day(metadata_lists, metadata_labels, out_filename)
PlotPhotoCaptureHoursOfDay(metadata_lists, metadata_labels) ==
    IF LabelsMatchLists(metadata_lists, metadata_labels) # "none"
    THEN PlotResult(LabelsMatchLists(metadata_lists, metadata_labels), <<>>)
    ELSE PlotColumns("hour_of_day", "EXIF:DateTimeOriginal", metadata_labels,
             [i \in DOMAIN metadata_lists |->
                 [j \in DOMAIN metadata_lists[i] |->
                     CaptureTimeLookup(metadata_lists[i][j])]])

\* One plot after another; the first that raises ends the process.
Then(first, second) ==
    IF first.error # "none" THEN first
    ELSE PlotResult(second.error, first.plots \o second.plots)

\* for out_file, tag, xlabel in zip(custom_metadata_plot, ..._tag, ..._axis_label)
RECURSIVE CustomPlots(_, _, _, _, _)
CustomPlots(i, args, metadata_lists, metadata_labels, nan_if_tag_missing) ==
    IF \/ i > Len(args.custom_metadata_plot)
       \/ i > Len(args.custom_metadata_plot_tag)
       \/ i > Len(args.custom_metadata_plot_axis_label)
    THEN PlotResult("none", <<>>)
    ELSE Then(PlotMetadata("custom", metadata_lists, metadata_labels,
                           args.custom_metadata_plot_tag[i], nan_if_tag_missing),
              CustomPlots(i + 1, args, metadata_lists, metadata_labels,
                          nan_if_tag_missing))

\* labels = args.folder_comparison_labels if args.compare_folders else [...]
MetadataLabels(args) ==
    IF args.compare_folders # "none" THEN args.folder_comparison_labels
    ELSE <<"Raw photos", "Edited photos">>

\* 'nan_if_tag_missing': args.use_nan_if_metadata_missing
NanIfTagMissing(args) == args.use_nan_if_metadata_missing

NoPlot == PlotResult("none", <<>>)

\* The plot calls of process_metadata_plots, in order.
MetadataPlots(args, metadata_collections) ==
    Then(IF args.hour_of_day_plot
         THEN PlotPhotoCaptureHoursOfDay(metadata_collections, MetadataLabels(args))
         ELSE NoPlot,
    Then(IF args.isos_plot
         THEN PlotMetadata("isos", metadata_collections, MetadataLabels(args),
                           "EXIF:ISO", NanIfTagMissing(args))
         ELSE NoPlot,
         IF Truthy(args.custom_metadata_plot)
         THEN CustomPlots(1, args, metadata_collections, MetadataLabels(args),
                          NanIfTagMissing(args))
         ELSE NoPlot))

\* if not (args.hour_of_day_plot or ... or args.custom_metadata_plot): return
AnyMetadataPlot(args) ==
    args.hour_of_day_plot \/ args.isos_plot \/ Truthy(args.custom_metadata_plot)

\* The options process_metadata_plots collects its groups by.
CollectArgs(args) ==
    [folders |-> args.folders, compare_folders |-> args.compare_folders,
     cache_metadata |-> args.cache_metadata,
     any_metadata_plot |-> AnyMetadataPlot(args)]

\* The I/O of the get_metadata calls of a run.
CallsIo(calls) ==
    UNION {(IF calls[i].invoked THEN {"glob", "exiftool"} ELSE {"read_cache"})
           \cup (IF calls[i].fs_changed THEN {"write_cache"} ELSE {}) :
           i \in DOMAIN calls}

MetadataResult(run_record, fs, plots, io) ==
    [run |-> run_record, fs |-> fs, plots |-> plots, io |-> io]

\* The plots drawn from the groups: the run ends "collected", or "raised"
\* by the plot that failed.
Plotted(args, done, collections, plotted) ==
    MetadataResult(
        RunRecord(IF plotted.error = "none" THEN "collected" ELSE "raised",
                  CollectArgs(args), done.log, collections, plotted.error),
        done.fs, plotted.plots,
        CallsIo(done.log) \cup (IF plotted.plots # <<>> THEN {"savefig"} ELSE {}))

\* The groups built from the get_metadata calls, unless one raised.
Collected(args, done, collections) ==
    IF Raised(done.log)
    THEN MetadataResult(
             RunRecord("raised", CollectArgs(args), done.log, <<>>,
                       done.log[Len(done.log)].error),
             done.fs, <<>>, CallsIo(done.log))
    ELSE Plotted(args, done, collections, MetadataPlots(args, collections))

Called(args, done) ==
    Collected(args, done, MetadataCollections(CollectArgs(args), done.log))

\* process_metadata_plots(args), whole: the groups, then the plots.
ProcessMetadata(args, fs) ==
    IF ~AnyMetadataPlot(args)
    THEN MetadataResult(RunRecord("skipped", CollectArgs(args), <<>>, <<>>, "none"),
                        fs, <<>>, {})
    ELSE Called(args, RunCalls(Batches(CollectArgs(args)), CollectArgs(args), fs, <<>>))

(***************************************************************************)
(* main(): parse_args with validate_args, process_time_based_plots, then   *)
(* process_metadata_plots; an exception ends the process where it is       *)
(* raised.                                                                 *)
(***************************************************************************)
\* What main() leaves: the process record, the cache files, the run record.
MainOutcome(args, fs, valid, time, meta) ==
    IF valid.error # "none"
    THEN [proc |-> ProcRecord("invalid", args, valid.error, valid.io,
                              <<>>, <<>>, <<>>, <<>>, fs),
          cache |-> fs, run |-> Idle]
    ELSE IF time.error # "none"
    THEN [proc |-> ProcRecord("raised", args, time.error, valid.io \cup time.io,
                              time.files_collections, time.mtimes_collections,
                              <<>>, time.plots, fs),
          cache |-> fs, run |-> Idle]
    ELSE [proc |-> ProcRecord(IF meta.run.status = "raised" THEN "raised" ELSE "done",
                              args, meta.run.error,
                              valid.io \cup time.io \cup meta.io,
                              time.files_collections, time.mtimes_collections,
                              IF meta.run.status = "skipped" THEN <<>>
                              ELSE MetadataLabels(args),
                              time.plots \o meta.plots, fs),
          cache |-> meta.fs, run |-> meta.run]

MainFrom(args, outcome) ==
    /\ proc' = outcome.proc
    /\ cache' = outcome.cache
    /\ run' = outcome.run

Main(args) ==
    /\ proc.status = "idle"
    /\ run.status = "idle"
    /\ MainFrom(args, MainOutcome(args, cache, ValidateArgs(args),
                                  ProcessTimeBasedPlots(args),
                                  ProcessMetadata(args, cache)))
    /\ UNCHANGED files
    /\ UNCHANGED seg_vars

\* A process is started on one of the given command lines.
Process(command_lines) ==
    /\ proc.status = "idle"
    /\ \E args \in command_lines : Main(args)

\* The process ends.
ExitMain ==
    /\ proc.status \in {"invalid", "raised", "done"}
    /\ proc' = IdleProc
    /\ run' = Idle
    /\ UNCHANGED <<files, cache>>
    /\ UNCHANGED seg_vars

(***************************************************************************)
(* Command lines.                                                          *)
(***************************************************************************)
LabelNames == <<"L1", "L2", "L3", "L4", "L5">>
Labels(n) == SubSeq(LabelNames, 1, n)

\* A folder argument that does not exist.
MissingFolder == "Z"

NoCustomPlots == <<PyNone, PyNone, PyNone>>

\* plots: the plots whose output file is given; custom: the lists of
\* --custom-metadata-plot, --custom-metadata-plot-tag, --custom-metadata-plot-axis-label.
Args(folders, compare_folders, labels, cache_metadata, use_nan, plots, custom) ==
    [folders |-> folders, compare_folders |-> compare_folders,
     folder_comparison_labels |-> labels,
     cache_metadata |-> cache_metadata, use_nan_if_metadata_missing |-> use_nan,
     delta_plot |-> "delta" \in plots, sessions_plot |-> "sessions" \in plots,
     hour_of_day_plot |-> "hour_of_day" \in plots, isos_plot |-> "isos" \in plots,
     custom_metadata_plot |-> custom[1], custom_metadata_plot_tag |-> custom[2],
     custom_metadata_plot_axis_label |-> custom[3]]

\* The labels a valid command line gives: one per folder in a compare mode.
ValidLabels(folders, compare_folders) ==
    IF compare_folders = "none" THEN PyNone ELSE Labels(Len(folders))

(***************************************************************************)
(* SpecMain: processes on valid command lines over the folders, in every   *)
(* mode, with and without --cache-metadata, with none, one or two of the   *)
(* time-based plots and of the metadata plots; the cache files are those   *)
(* earlier processes wrote, and files come and go between processes.       *)
(***************************************************************************)
AssemblerArgs ==
    {Args(f, c, ValidLabels(f, c), cm, FALSE, tp \cup mp, NoCustomPlots) :
        f \in SeqsUpTo(FolderNames, MaxFolders) \ {<<>>},
        c \in {"none", "raw", "edited"},
        cm \in BOOLEAN,
        tp \in {{}, {"delta"}, {"delta", "sessions"}},
        mp \in {{}, {"isos"}, {"hour_of_day", "isos"}}}

\* Between processes, files appear or disappear in a folder.
ChangeFiles(folder, cat) ==
    /\ proc.status = "idle"
    /\ EnvChangeFiles(folder, cat)

NextMain ==
    \/ Process(AssemblerArgs)
    \/ ExitMain
    \/ \E f \in FolderNames, c \in Categories : ChangeFiles(f, c)

SpecMain == Init /\ [][NextMain]_vars

(***************************************************************************)
(* SpecArgs: processes on command lines of every shape validate_args       *)
(* looks at, over folders that hold one raw and one edited file each.      *)
(***************************************************************************)
MaxCustomPlots == 2      \* most values given to one custom-plot option

CustomValues(names) ==
    {PyNone} \cup {SubSeq(names, 1, k) : k \in 0..MaxCustomPlots}

ValidationArgs ==
    {Args(f, c, l, FALSE, FALSE, {"delta", "isos"}, <<p, t, a>>) :
        f \in SeqsUpTo(FolderNames \cup {MissingFolder}, MaxFolders) \ {<<>>},
        c \in {"none", "raw", "edited"},
        l \in {PyNone} \cup {Labels(k) : k \in 0..(MaxFolders + 1)},
        p \in CustomValues(<<"c1.png", "c2.png", "c3.png", "c4.png">>),
        t \in CustomValues(<<"EXIF:ISO", "EXIF:ISO", "EXIF:ISO", "EXIF:ISO">>),
        a \in CustomValues(<<"x1", "x2", "x3", "x4">>)}

InitArgs ==
    /\ SegQuiet
    /\ files = [f \in FolderNames |-> [c \in Categories |-> <<File(f, c, 1, TRUE)>>]]
    /\ cache = [f \in FolderNames |-> [c \in Categories |-> NoFile]]
    /\ run = Idle
    /\ proc = IdleProc

NextArgs ==
    \/ Process(ValidationArgs)
    \/ ExitMain

SpecArgs == InitArgs /\ [][NextArgs]_vars

(***************************************************************************)
(* SpecPlots: processes that draw metadata plots, strict or lenient, over  *)
(* folders where a glob matches one file with all tags, or a file the      *)
(* extractor reports an error for (a record without EXIF tags) and one     *)
(* with all tags.                                                          *)
(***************************************************************************)
PlotFileLists(folder, cat) ==
    {<<File(folder, cat, 1, TRUE)>>,
     <<File(folder, cat, 1, FALSE), File(folder, cat, 2, TRUE)>>}

OneCustomPlot == <<<<"c1.png">>, <<"EXIF:ISO">>, <<"x1">>>>

PlotArgs ==
    {Args(f, c, ValidLabels(f, c), FALSE, nan, mp, custom) :
        f \in SeqsUpTo(FolderNames, MaxFolders) \ {<<>>},
        c \in {"none", "raw", "edited"},
        nan \in BOOLEAN,
        mp \in SUBSET {"hour_of_day", "isos"},
        custom \in {NoCustomPlots, OneCustomPlot}}

InitPlots ==
    /\ SegQuiet
    /\ files \in {fl \in [FolderNames -> [Categories ->
                            UNION {PlotFileLists(f, c) :
                                   f \in FolderNames, c \in Categories}]] :
                   \A f \in FolderNames : \A c \in Categories :
                      fl[f][c] \in PlotFileLists(f, c)}
    /\ cache = [f \in FolderNames |-> [c \in Categories |-> NoFile]]
    /\ run = Idle
    /\ proc = IdleProc

NextPlots ==
    \/ Process(PlotArgs)
    \/ ExitMain

SpecPlots == InitPlots /\ [][NextPlots]_vars

(***************************************************************************)
(* C11: in a run that produces its metadata plots, get_metadata is called  *)
(* once for each batch the comparison mode needs (each listed folder with  *)
(* the selected category, or with both), in order, and a call invokes the  *)
(* extractor - once - exactly when the cache file of its batch does not    *)
(* exist; for a folder listed once that is the cache file as it was when   *)
(* the run began.  The number of invocations is the same whichever         *)
(* metadata plots are asked for.                                           *)
(***************************************************************************)
NumInvoked(calls) == Cardinality({i \in DOMAIN calls : calls[i].invoked})

ListedOnce(folders, folder) ==
    Cardinality({i \in DOMAIN folders : folders[i] = folder}) = 1

\* The categories a comparison mode needs of each folder: one, or both.
NeededPerFolder(args) == IF args.compare_folders # "none" THEN 1 ELSE 2

\* The same command line asking for other metadata plots.
WithOtherPlots(args) ==
    {other \in AssemblerArgs :
        /\ AnyMetadataPlot(other)
        /\ other.folders = args.folders
        /\ other.compare_folders = args.compare_folders
        /\ other.cache_metadata = args.cache_metadata}

C11_ExtractorOncePerUncachedBatch ==
    (proc.status = "done" /\ run.status = "collected") =>
        /\ Len(run.calls) = NeededPerFolder(run.args) * Len(run.args.folders)
        /\ \A i \in DOMAIN run.calls :
              LET c == run.calls[i]
              IN  /\ c.folder = run.args.folders[((i - 1) \div NeededPerFolder(run.args)) + 1]
                  /\ c.cat = IF run.args.compare_folders # "none"
                             THEN run.args.compare_folders
                             ELSE IF i % 2 = 1 THEN "raw" ELSE "edited"
                  /\ c.invoked <=> (c.before = NoFile)
                  /\ ListedOnce(run.args.folders, c.folder) =>
                        (c.invoked <=> (proc.cache_before[c.folder][c.cat] = NoFile))
        /\ \A other \in WithOtherPlots(proc.args) :
              LET rerun == ProcessMetadata(other, proc.cache_before).run
              IN  rerun.status = "collected" =>
                      NumInvoked(rerun.calls) = NumInvoked(run.calls)

C11_Witness ==
    /\ proc.status = "done"
    /\ run.status = "collected"
    /\ Len(proc.plots) = 2
    /\ proc.plots[1].plot = "hour_of_day"
    /\ proc.plots[2].plot = "isos"
    /\ Len(run.calls) = 4
    /\ NumInvoked(run.calls) = 2
    /\ \E other \in WithOtherPlots(proc.args) : ~other.hour_of_day_plot

(***************************************************************************)
(* C12: in aggregate mode the assembler's groups are two, the raw group    *)
(* first and the edited group second, under the labels of the raw and the  *)
(* edited photos; each group is the concatenation, in the order the        *)
(* folders are listed, of every folder's part for that glob pattern: for   *)
(* the time-based plots the files the pattern matches (the group's         *)
(* timestamps are their mtimes, sorted), for the metadata plots the        *)
(* records get_metadata returns for those files (extracted from the        *)
(* matches, or read from the folder's cache file of that category).        *)
(***************************************************************************)
\* group is parts[1] \o parts[2] \o ..., stated position by position.
IsConcatenation(group, parts) ==
    /\ Len(group) = SumSeq([k \in DOMAIN parts |-> Len(parts[k])])
    /\ \A k \in DOMAIN parts : \A j \in DOMAIN parts[k] :
          group[SumSeq([i \in 1..(k - 1) |-> Len(parts[i])]) + j] = parts[k][j]

IsAscending(s) == \A i \in 1..(Len(s) - 1) : s[i] <= s[i + 1]

SameElements(s, t) ==
    /\ Len(s) = Len(t)
    /\ \A x \in {s[i] : i \in DOMAIN s} :
          Cardinality({i \in DOMAIN s : s[i] = x}) =
          Cardinality({i \in DOMAIN t : t[i] = x})

\* The records of a folder's batch: read from its cache file as it was
\* when the call was made, or extracted from the files the glob matches.
BatchRecords(call) ==
    IF call.before # NoFile THEN JsonLoad(call.before)
    ELSE ExifToolGetMetadata(files[call.folder][call.cat])

AggregateCategories == <<"raw", "edited">>

OtherCategory(cat) == IF cat = "raw" THEN "edited" ELSE "raw"

C13_CompareGroupsOnePerFolder ==
    (proc.status # "idle" /\ proc.args.compare_folders # "none") =>
        LET folders == proc.args.folders
            cat == proc.args.compare_folders
            labels == proc.args.folder_comparison_labels
        IN  /\ proc.files_collections # <<>> =>
                 /\ Len(proc.files_collections) = Len(folders)
                 /\ Len(proc.mtimes_collections) = Len(folders)
                 /\ \A k \in DOMAIN folders :
                       /\ proc.files_collections[k] = files[folders[k]][cat]
                       /\ SameElements(proc.mtimes_collections[k],
                              [i \in DOMAIN files[folders[k]][cat] |->
                                  Mtime(files[folders[k]][cat][i])])
                       /\ IsAscending(proc.mtimes_collections[k])
                 /\ \A p \in DOMAIN proc.plots :
                       proc.plots[p].plot \in {"delta", "sessions"} =>
                           /\ Len(proc.plots[p].columns) = Len(folders)
                           /\ \A k \in DOMAIN folders :
                                 proc.plots[p].columns[k].label = labels[k]
            /\ run.status = "collected" =>
                 /\ Len(run.metadata_collections) = Len(folders)
                 /\ proc.metadata_labels = labels
                 /\ Len(labels) = Len(folders)
                 /\ Len(run.calls) = Len(folders)
                 /\ \A k \in DOMAIN folders :
                       /\ run.calls[k].folder = folders[k]
                       /\ run.calls[k].cat = cat
                       /\ run.metadata_collections[k] = BatchRecords(run.calls[k])
                 /\ \A p \in DOMAIN proc.plots :
                       proc.plots[p].plot \in {"hour_of_day", "isos"} =>
                           /\ Len(proc.plots[p].columns) = Len(folders)
                           /\ \A k \in DOMAIN folders :
                                 /\ proc.plots[p].columns[k].label = labels[k]
                                 /\ Len(proc.plots[p].columns[k].values) =
                                        Len(run.metadata_collections[k])
            /\ \A f \in FolderNames :
                  cache[f][OtherCategory(cat)] = proc.cache_before[f][OtherCategory(cat)]

C13_Witness ==
    /\ proc.status = "done"
    /\ run.status = "collected"
    /\ proc.args.compare_folders = "edited"
    /\ proc.args.folders = <<"B", "A">>
    /\ proc.args.cache_metadata
    /\ Len(proc.files_collections) = 2
    /\ proc.files_collections[1] # <<>>
    /\ proc.files_collections[1][1].folder = "B"
    /\ proc.cache_before["B"]["raw"] # NoFile
    /\ proc.cache_before["B"]["edited"] = NoFile
    /\ run.calls[1].invoked
    /\ cache["B"]["edited"] # NoFile
    /\ Len(run.metadata_collections[2]) = 1
    /\ proc.metadata_labels = <<"L1", "L2">>

(***************************************************************************)
(* C14 as claimed: in a compare mode, whenever the number of labels given  *)
(* differs from the number of folders - no labels given at all included -  *)
(* the process ends with the configuration error of validate_args about    *)
(* the labels, before any file I/O.                                        *)
(***************************************************************************)
\* The number of labels the command line gives.
LabelCount(args) ==
    IF args.folder_comparison_labels = PyNone THEN 0
    ELSE Len(args.folder_comparison_labels)

C14_LabelMismatchIsConfigurationError ==
    (/\ proc.status # "idle"
     /\ proc.args.compare_folders # "none"
     /\ LabelCount(proc.args) # Len(proc.args.folders)) =>
        /\ proc.status = "invalid"
        /\ proc.error = "ValueError: labels"
        /\ proc.io = {}

(***************************************************************************)
(* C15: a process whose command line fails validation - a listed folder    *)
(* that does not exist, in a compare mode a number of labels other than    *)
(* the number of folders, custom-plot options of which some have values    *)
(* and some have none, or have different numbers of values - ends with an  *)
(* error before any processing: nothing is globbed or stat-ed, the         *)
(* extractor is not invoked, no cache file is read or written and no plot  *)
(* is saved.                                                               *)
(***************************************************************************)
\* The number of values a custom-plot option was given.
ValueCount(list) == IF list = PyNone THEN 0 ELSE Len(list)

CustomCounts(args) ==
    {ValueCount(args.custom_metadata_plot),
     ValueCount(args.custom_metadata_plot_tag),
     ValueCount(args.custom_metadata_plot_axis_label)}

FailsValidation(args) ==
    \/ \E i \in DOMAIN args.folders : args.folders[i] \notin FolderNames
    \/ args.compare_folders # "none" /\ LabelCount(args) # Len(args.folders)
    \/ Cardinality(CustomCounts(args)) > 1

C15_ValidationFailureBeforeProcessing ==
    (proc.status # "idle" /\ FailsValidation(proc.args)) =>
        /\ proc.status = "invalid"
        /\ proc.error # "none"
        /\ proc.io \subseteq {"exists"}
        /\ run.calls = <<>>
        /\ proc.files_collections = <<>>
        /\ proc.plots = <<>>
        /\ cache = proc.cache_before

C15_Witness ==
    /\ proc.status = "invalid"
    /\ proc.error = "ValueError: folder"
    /\ proc.args.folders = <<"A", MissingFolder>>
    /\ proc.io = {"exists"}
    /\ proc.plots = <<>>
    /\ run.calls = <<>>

(***************************************************************************)
(* C16: with one folder listed, from the same files and cache files, the   *)
(* raw group of aggregate mode is the one group of compare-by-raw and the  *)
(* edited group is the one group of compare-by-edited: the same files and  *)
(* timestamps for the time-based plots, the same records for the metadata  *)
(* plots; and aggregate mode yields its metadata groups exactly when both  *)
(* compare modes yield theirs.                                             *)
(***************************************************************************)
\* The command line of the aggregate process, in the compare mode of cat.
InCompareMode(args, cat) ==
    [args EXCEPT !.compare_folders = cat,
                 !.folder_comparison_labels = Labels(Len(args.folders))]

C16_OneFolderAggregateEqualsCompare ==
    (/\ proc.status # "idle"
     /\ proc.args.compare_folders = "none"
     /\ Len(proc.args.folders) = 1) =>
        /\ \A g \in 1..2 :
              LET compare == InCompareMode(proc.args, AggregateCategories[g])
                  time == ProcessTimeBasedPlots(compare)
                  meta == ProcessMetadata(compare, proc.cache_before).run
              IN  /\ proc.files_collections # <<>> =>
                        /\ Len(time.files_collections) = 1
                        /\ proc.files_collections[g] = time.files_collections[1]
                        /\ proc.mtimes_collections[g] = time.mtimes_collections[1]
                  /\ run.metadata_collections # <<>> =>
                        /\ Len(meta.metadata_collections) = 1
                        /\ run.metadata_collections[g] = meta.metadata_collections[1]
        /\ run.status \in {"collected", "raised"} =>
              ((run.metadata_collections # <<>>) <=>
                  \A g \in 1..2 :
                      ProcessMetadata(InCompareMode(proc.args, AggregateCategories[g]),
                                      proc.cache_before).run.metadata_collections # <<>>)

C16_Witness ==
    /\ proc.status = "done"
    /\ run.status = "collected"
    /\ proc.args.compare_folders = "none"
    /\ proc.args.folders = <<"A">>
    /\ proc.args.delta_plot
    /\ proc.cache_before["A"]["raw"] # NoFile
    /\ files["A"]["raw"] = <<>>
    /\ Len(run.metadata_collections[1]) = 1
    /\ proc.cache_before["A"]["edited"] = NoFile
    /\ Len(run.metadata_collections[2]) = 1
    /\ proc.files_collections[1] = <<>>
    /\ Len(proc.files_collections[2]) = 1

(***************************************************************************)
(* C17: the tag lookups of a tag plot.  In strict mode (the default,       *)
(* --use-nan-if-metadata-missing not given) a record that lacks the tag    *)
(* makes the lookup raise the missing-tag error, which ends the process    *)
(* without the plot; in lenient mode the lookup of such a record gives     *)
(* not-a-number; for a record that has the tag the lookup gives the tag's  *)
(* value in both modes.                                                    *)
(***************************************************************************)
Lacks(record, tag) == \A i \in DOMAIN record : record[i].k # tag

\* The ISO plot is the first plot the process draws from its groups.
IsoPlotFirst ==
    /\ proc.status \in {"done", "raised"}
    /\ run.metadata_collections # <<>>
    /\ proc.args.isos_plot
    /\ ~proc.args.hour_of_day_plot

C18_LenientModeNeverAborts ==
    (/\ proc.status \in {"done", "raised"}
     /\ proc.args.use_nan_if_metadata_missing
     /\ run.metadata_collections # <<>>) =>
        /\ proc.status = "done"
        /\ proc.error = "none"
        /\ proc.args.hour_of_day_plot =>
              (proc.plots # <<>> /\ proc.plots[1].plot = "hour_of_day")

(***************************************************************************)
(* C19: no run, in any mode and after any runs and changes of the folders, *)
(* modifies or deletes a cache file that exists.  A run writes a cache     *)
(* file only where there was none, only with --cache-metadata, and only    *)
(* from a get_metadata call that extracted records for that folder and     *)
(* category, whose records the file then holds; and every such call does   *)
(* write it, so the file is written once, by the first such run, and is    *)
(* written again only after the user deleted it.                           *)
(***************************************************************************)
\* The calls of a run that extracted records for the batch (folder, cat).
Extractions(calls, folder, cat) ==
    {i \in DOMAIN calls :
        /\ calls[i].folder = folder
        /\ calls[i].cat = cat
        /\ calls[i].source = "fresh"}

C19_ExistingCacheNeverModified ==
    [][ (run.status = "idle" /\ run'.status \in {"skipped", "collected", "raised"}) =>
        \A f \in FolderNames : \A c \in Categories :
            /\ cache[f][c] # NoFile => cache'[f][c] = cache[f][c]
            /\ cache'[f][c] # cache[f][c] =>
                  /\ run'.args.cache_metadata
                  /\ \E i \in Extractions(run'.calls, f, c) :
                        cache'[f][c] = JsonDump(run'.calls[i].value)
            /\ (run'.args.cache_metadata /\ Extractions(run'.calls, f, c) # {}) =>
                  /\ cache[f][c] = NoFile
                  /\ cache'[f][c] # NoFile ]_vars

C19_Witness ==
    /\ run.status = "collected"
    /\ run.args.cache_metadata
    /\ Len(run.calls) = 2
    /\ run.calls[1].before # NoFile
    /\ run.calls[1].after = run.calls[1].before
    /\ files[run.calls[1].folder][run.calls[1].cat] = <<>>
    /\ run.calls[2].before = NoFile
    /\ run.calls[2].after = JsonDump(run.calls[2].value)
    /\ cache[run.calls[2].folder][run.calls[2].cat] = run.calls[2].after

(***************************************************************************)
(* C20: a get_metadata call that ends in the empty-batch result - the      *)
(* list with one empty record, or the exception of the handler - writes    *)
(* nothing, also when a cache location is given and write_cache is on:     *)
(* the location has no file after the call.  Hence the next call for the   *)
(* batch, like every call made while the batch has no cache file, invokes  *)
(* the extractor again.                                                    *)
(***************************************************************************)
LastCall(calls) == calls[Len(calls)]

\* The step is a get_metadata call on the batch of the store.
IsCallStep ==
    /\ files' = files
    /\ run'.status = "called"
    /\ run' # run

C20_EmptyResultNeverCached ==
    [][ IsCallStep =>
        /\ LastCall(run'.calls).source = "empty" =>
              /\ cache' = cache
              /\ LastCall(run'.calls).cache_given =>
                    cache'[StoreFolder][StoreCat] = NoFile
        /\ cache[StoreFolder][StoreCat] = NoFile => LastCall(run'.calls).invoked
        /\ (/\ run.calls # <<>>
            /\ LastCall(run.calls).source = "empty"
            /\ LastCall(run.calls).cache_given) => LastCall(run'.calls).invoked ]_vars

C20_Witness ==
    /\ run.status = "called"
    /\ LastCall(run.calls).source = "empty"
    /\ LastCall(run.calls).outcome = "return"
    /\ LastCall(run.calls).value = <<EmptyRecord>>
    /\ LastCall(run.calls).cache_given
    /\ LastCall(run.calls).write_cache
    /\ LastCall(run.calls).invoked
    /\ cache[StoreFolder][StoreCat] = NoFile

(***************************************************************************)
(* SpecSeg: every call of the segmenter on a bounded input.                *)
(***************************************************************************)
InitSeg ==
    /\ \/ /\ timestamps_sec \in SeqsUpTo(0..MaxTime, MaxLen)
          /\ min_break \in 1..MaxBreak
       \/ /\ timestamps_sec = ScenarioInstants
          /\ min_break = DefaultMinBreak
    /\ seg_pc = "created"
    /\ sorted_ts = <<>>
    /\ session_start = 0
    /\ seg_i = 0
    /\ sessions = <<>>
    /\ seg_error = "none"
    /\ MetaQuiet

NextSeg == SegFirstNext \/ SegLoopStep \/ SegFinal

SpecSeg == InitSeg /\ [][NextSeg]_vars

====
